---- MODULE Spec2Model ----
(***************************************************************************)
(* Model of src/src/curl_stream.c: the curl-backed git_stream.             *)
(* One stream instance is followed from git_curl_stream_new to curls_free. *)
(* The curl library, select() and the allocator are the environment: their *)
(* results are chosen nondeterministically among the documented outcomes.  *)
(***************************************************************************)
EXTENDS Integers, Sequences, FiniteSets, TLC

\* ---- bounds of the model --------------------------------------------------
MaxLen == 3        \* longest buffer handed to curls_write / curls_read
MaxCount == 3      \* history counters saturate here
MaxPortLen == 1    \* longest port string tried by the factory

\* ---- values ---------------------------------------------------------------
NULL == "NULL"
CURL_HANDLE == "CURL"
GIT_ECERTIFICATE == -17
GIT_CERT_NONE == "GIT_CERT_NONE"
GIT_CERT_X509 == "GIT_CERT_X509"
CURLE_OK == "CURLE_OK"
CURLE_AGAIN == "CURLE_AGAIN"
CURLE_PEER_FAILED_VERIFICATION == "CURLE_PEER_FAILED_VERIFICATION"
CURLE_COULDNT_CONNECT == "CURLE_COULDNT_CONNECT"
CURLE_SEND_ERROR == "CURLE_SEND_ERROR"
CURLE_RECV_ERROR == "CURLE_RECV_ERROR"
CURLE_BAD_FUNCTION_ARGUMENT == "CURLE_BAD_FUNCTION_ARGUMENT"
GITERR_NONE == "GITERR_NONE"
GITERR_NET == "GITERR_NET"
GITERR_OS == "GITERR_OS"
GITERR_NOMEMORY == "GITERR_NOMEMORY"
GITERR_INVALID == "GITERR_INVALID"

Digits == {"4"}
PortChars == Digits \cup {"a"}
SockVals == {-1, 3}

SeqsUpTo(S, n) == UNION {[1..k -> S] : k \in 0..n}
Buffers == {[i \in 1..k |-> i] : k \in 0..MaxLen}   \* byte i of a buffer is i
PortStrings == SeqsUpTo(PortChars, MaxPortLen)

Bump(n) == IF n < MaxCount THEN n + 1 ELSE n

VARIABLES
  pc,          \* where the caller is: start, idle, inside a loop, freed, failed
  handle,      \* curl_stream.handle
  socket,      \* curl_stream.socket
  encrypted,   \* curl_stream.parent.encrypted
  cert_info,   \* curl_stream.cert_info
  optable,     \* curl_stream.parent: the operation table
  out,         \* the caller's *out of git_curl_stream_new
  certOut,     \* the caller's *out of curls_certificate
  curlopt,     \* options set on the curl handle by the factory
  ret,         \* value returned by the last operation that returned
  lastOp,      \* name of the last operation that returned
  err,         \* class of the last giterr_set
  data,        \* curls_write: the caller's buffer
  len,         \* curls_write / curls_read: requested length
  off,         \* curls_write: offset
  res,         \* last CURLcode of the running / last operation
  nread,       \* curls_read: the local `read`
  wire,        \* bytes accepted by curl_easy_send during the current write
  nwait,       \* wait_for calls made by the current / last read or write
  nio,         \* send / recv attempts made by the current / last read or write
  perfRes,     \* result of curl_easy_perform in the last connect
  infoRes,     \* result of curl_easy_getinfo in the last connect
  connRet,     \* value returned by the last connect
  newFail,     \* path taken by the factory
  curlInits,   \* handles created by curl_easy_init
  cleanups,    \* calls of curl_easy_cleanup
  stMem,       \* the curl_stream allocation: none, allocated, freed
  closes,      \* calls of curls_close made through the interface
  prevFail,    \* the failed connect/read/write that returned just before lastOp
  extcall      \* last external primitive invoked, with s->handle and s->socket then

stFields == <<handle, socket, encrypted, cert_info, optable>>
callerVars == <<out, certOut, ret, lastOp, err, prevFail>>
loopVars == <<data, len, off, res, nread, wire, nwait, nio>>
connVars == <<perfRes, infoRes, connRet>>
envVars == <<newFail, curlInits, cleanups, stMem, curlopt, closes>>
vars == <<pc, stFields, callerVars, loopVars, connVars, envVars, extcall>>

\* the locals of a call that has returned are gone when the next operation
\* starts
NoConn ==
  /\ perfRes' = "none"
  /\ infoRes' = "none"
  /\ UNCHANGED connRet

NoLoop ==
  /\ data' = <<>>
  /\ len' = 0
  /\ off' = 0
  /\ res' = "none"
  /\ nread' = 0
  /\ wire' = <<>>
  /\ nwait' = 0
  /\ nio' = 0

LastFailed ==
  IF lastOp \in {"connect", "read", "write"} /\ ret < 0 THEN lastOp ELSE "none"

ExtCall(fn) == [fn |-> fn, sh |-> handle, fd |-> socket]

\* select() as wait_for calls it: on s->socket, for reading or for writing
ExtWait(reading) == [fn |-> "select", sh |-> handle, fd |-> socket, reading |-> reading]

\* ---- environment: what the external primitives may answer -----------------
PerformResults(h) ==
  IF h = NULL THEN {CURLE_BAD_FUNCTION_ARGUMENT}
  ELSE {CURLE_OK, CURLE_PEER_FAILED_VERIFICATION, CURLE_COULDNT_CONNECT}

GetinfoResults(h) ==
  IF h = NULL THEN {CURLE_BAD_FUNCTION_ARGUMENT}
  ELSE {CURLE_OK, CURLE_BAD_FUNCTION_ARGUMENT}

SendResults(h) ==
  IF h = NULL THEN {CURLE_BAD_FUNCTION_ARGUMENT}
  ELSE {CURLE_OK, CURLE_AGAIN, CURLE_SEND_ERROR}

RecvResults(h) ==
  IF h = NULL THEN {CURLE_BAD_FUNCTION_ARGUMENT}
  ELSE {CURLE_OK, CURLE_AGAIN, CURLE_RECV_ERROR}

\* ---- git__strtol32(&iport, port, NULL, 10) --------------------------------
DigitVal(c) == IF c = "4" THEN 4 ELSE 0

RECURSIVE strtol_val(_)
strtol_val(p) ==
  IF p = <<>> THEN 0
  ELSE 10 * strtol_val(SubSeq(p, 1, Len(p) - 1)) + DigitVal(p[Len(p)])

strtol_ok(p) == Len(p) > 0 /\ \A i \in 1..Len(p) : p[i] \in Digits

git__strtol32(p) ==
  IF strtol_ok(p) THEN [error |-> 0, iport |-> strtol_val(p)]
  ELSE [error |-> -1, iport |-> 0]

\* ---- git_curl_stream_new --------------------------------------------------
new_path(allocOk, initOk, port) ==
  IF ~allocOk THEN "alloc"
  ELSE IF ~initOk THEN "init"
  ELSE IF git__strtol32(port).error < 0 THEN "port"
  ELSE "ok"

new_err(path) ==
  CASE path = "alloc" -> GITERR_NOMEMORY
    [] path = "init" -> GITERR_NET
    [] path = "port" -> GITERR_INVALID
    [] OTHER -> GITERR_NONE

new_out_early(path) == IF path \in {"port", "ok"} THEN "stream" ELSE "unset"

new_out(path) == IF path = "ok" THEN "stream" ELSE "unset"

new_parent_encrypted_on(enc) == TRUE

new_parent_encrypted(enc) == enc

\* the operation table of a stream git__calloc has zeroed: no entry is set
calloc_optable ==
  [connect |-> NULL, certificate |-> NULL, read |-> NULL, write |-> NULL,
   close |-> NULL, free |-> NULL]

curls_optable ==
  [connect |-> "curls_connect", certificate |-> "curls_certificate",
   read |-> "curls_read", write |-> "curls_write",
   close |-> "curls_close", free |-> "curls_free"]

git_curl_stream_new ==
  /\ pc = "start"
  /\ \E port \in PortStrings, enc \in BOOLEAN, allocOk \in BOOLEAN, initOk \in BOOLEAN :
       LET path == new_path(allocOk, initOk, port) IN
       /\ newFail' = path
       /\ stMem' = IF path = "alloc" THEN "none" ELSE "allocated"
       /\ curlInits' = IF path \in {"port", "ok"} THEN 1 ELSE 0
       /\ extcall' = IF path = "alloc" THEN extcall
                     ELSE [fn |-> "curl_easy_init", sh |-> NULL, fd |-> 0]
       /\ curlopt' = IF path = "ok"
                     THEN [port |-> git__strtol32(port).iport, https |-> enc]
                     ELSE curlopt
       /\ encrypted' = IF path = "ok" THEN new_parent_encrypted(enc) ELSE encrypted
       /\ optable' = IF path = "ok" THEN curls_optable ELSE optable
       /\ handle' = IF path = "ok" THEN CURL_HANDLE ELSE handle
       /\ out' = new_out(path)
       /\ ret' = IF path = "ok" THEN 0 ELSE -1
       /\ err' = IF path = "ok" THEN err ELSE new_err(path)
       /\ pc' = IF path = "ok" THEN "idle" ELSE "failed"
  /\ lastOp' = "new"
  /\ UNCHANGED <<socket, cert_info, certOut, prevFail, loopVars, connVars, cleanups, closes>>

\* ---- curls_connect --------------------------------------------------------
curls_connect_pastperform(perf) ==
  ~(perf # CURLE_OK /\ perf # CURLE_PEER_FAILED_VERIFICATION)

curls_connect_ret_folded(perf, info, enc) ==
  IF ~curls_connect_pastperform(perf) THEN -1
  ELSE IF info # CURLE_OK THEN -1
  ELSE 0

curls_connect_ret_anystream(perf, info, enc) ==
  IF ~curls_connect_pastperform(perf) THEN -1
  ELSE LET failed_cert == (perf = CURLE_PEER_FAILED_VERIFICATION) IN
       IF info # CURLE_OK THEN -1
       ELSE IF failed_cert THEN GIT_ECERTIFICATE
       ELSE 0

curls_connect_ret_noinfo(perf, info, enc) ==
  IF ~curls_connect_pastperform(perf) THEN -1
  ELSE LET failed_cert == (perf = CURLE_PEER_FAILED_VERIFICATION) IN
       IF enc /\ failed_cert THEN GIT_ECERTIFICATE
       ELSE 0

curls_connect_ret(perf, info, enc) ==
  IF ~curls_connect_pastperform(perf) THEN -1
  ELSE LET failed_cert == (perf = CURLE_PEER_FAILED_VERIFICATION) IN
       IF info # CURLE_OK THEN -1
       ELSE IF enc /\ failed_cert THEN GIT_ECERTIFICATE
       ELSE 0

curls_connect_stores_aftercert(perf, info, enc) ==
  /\ curls_connect_pastperform(perf)
  /\ info = CURLE_OK
  /\ ~(enc /\ perf = CURLE_PEER_FAILED_VERIFICATION)

curls_connect_stores(perf, info, enc) ==
  curls_connect_pastperform(perf) /\ info = CURLE_OK

curls_connect ==
  /\ pc = "idle"
  /\ \E perf \in PerformResults(handle), info \in GetinfoResults(handle),
        sockextr \in SockVals :
       LET r == curls_connect_ret(perf, info, encrypted)
           past == curls_connect_pastperform(perf) IN
       /\ perfRes' = perf
       /\ infoRes' = IF past THEN info ELSE "none"
       /\ extcall' = ExtCall(IF past THEN "curl_easy_getinfo" ELSE "curl_easy_perform")
       /\ socket' = IF curls_connect_stores(perf, info, encrypted) THEN sockextr ELSE socket
       /\ ret' = r
       /\ connRet' = r
       /\ err' = IF r = -1 THEN GITERR_NET ELSE err
  /\ lastOp' = "connect"
  /\ prevFail' = LastFailed
  /\ NoLoop
  /\ UNCHANGED <<pc, handle, encrypted, cert_info, optable, out, certOut, envVars>>

\* ---- curls_certificate ----------------------------------------------------
curls_certificate_info_untagged == [cert_type |-> GIT_CERT_NONE, data |-> NULL, len |-> 0]

curls_certificate_info == [cert_type |-> GIT_CERT_X509, data |-> NULL, len |-> 0]

curls_certificate_zeroing ==
  /\ pc = "idle"
  /\ cert_info' = curls_certificate_info
  /\ socket' = 0
  /\ certOut' = "cert_info"
  /\ ret' = 0
  /\ lastOp' = "certificate"
  /\ prevFail' = LastFailed
  /\ NoLoop
  /\ NoConn
  /\ UNCHANGED <<pc, handle, encrypted, optable, out, err, envVars, extcall>>

curls_certificate ==
  /\ pc = "idle"
  /\ cert_info' = curls_certificate_info
  /\ certOut' = "cert_info"
  /\ ret' = 0
  /\ lastOp' = "certificate"
  /\ prevFail' = LastFailed
  /\ NoLoop
  /\ NoConn
  /\ UNCHANGED <<pc, handle, socket, encrypted, optable, out, err, envVars, extcall>>

\* ---- wait_for ------------------------------------------------------------
SelectResults == {-1, 1}

wait_for(selectRet) == IF selectRet < 0 THEN -1 ELSE 0

\* ---- curls_write ----------------------------------------------------------
curls_write_continue_nobound(r, o, l) == r = CURLE_OK \/ r = CURLE_AGAIN

curls_write_continue_retry(r, o, l) ==
  (r = CURLE_OK \/ r = CURLE_AGAIN) /\ (o < l \/ r = CURLE_AGAIN)

curls_write_continue(r, o, l) == (r = CURLE_OK \/ r = CURLE_AGAIN) /\ o < l

curls_write_ret_partial(r, o, l) == IF r # CURLE_OK THEN o ELSE l

curls_write_ret(r, o, l) == IF r # CURLE_OK THEN -1 ELSE l

\* do { wait_for(...) ...: every iteration starts at the readiness wait
curls_write_loop_top_nowait == "write_send"

curls_write_loop_top == "write_wait"

\* the bytes handed to curl_easy_send: data + off, len - off
curls_write_offered_fromstart(d, o, l) == SubSeq(d, 1, l - o)

curls_write_offered(d, o, l) == SubSeq(d, o + 1, l)

curls_write_call ==
  /\ pc = "idle"
  /\ \E d \in Buffers :
       /\ data' = d
       /\ len' = Len(d)
  /\ off' = 0
  /\ res' = "none"
  /\ wire' = <<>>
  /\ nwait' = 0
  /\ nio' = 0
  /\ pc' = curls_write_loop_top
  /\ NoConn
  /\ UNCHANGED <<stFields, callerVars, nread, envVars, extcall>>

curls_write_wait ==
  /\ pc = "write_wait"
  /\ nwait' = Bump(nwait)
  /\ extcall' = ExtWait(FALSE)
  /\ \E selectRet \in SelectResults :
       LET error == wait_for(selectRet) IN
       IF error < 0
       THEN /\ ret' = error
            /\ err' = GITERR_OS
            /\ lastOp' = "write"
            /\ prevFail' = LastFailed
            /\ pc' = "idle"
       ELSE /\ pc' = "write_send"
            /\ UNCHANGED <<ret, err, lastOp, prevFail>>
  /\ UNCHANGED <<stFields, out, certOut, data, len, off, res, nread, wire, nio,
                 connVars, envVars>>

curls_write_send ==
  /\ pc = "write_send"
  /\ nio' = Bump(nio)
  /\ extcall' = ExtCall("curl_easy_send")
  /\ \E r \in SendResults(handle),
        sent \in 0..Len(curls_write_offered(data, off, len)) :
       /\ r # CURLE_OK => sent = 0
       /\ res' = r
       /\ off' = IF r = CURLE_OK THEN off + sent ELSE off
       /\ wire' = IF r = CURLE_OK
                  THEN wire \o SubSeq(curls_write_offered(data, off, len), 1, sent)
                  ELSE wire
       /\ IF curls_write_continue(r, off', len)
          THEN /\ pc' = curls_write_loop_top
               /\ UNCHANGED <<ret, err, lastOp, prevFail>>
          ELSE /\ ret' = curls_write_ret(r, off', len)
               /\ err' = IF r # CURLE_OK THEN GITERR_NET ELSE err
               /\ lastOp' = "write"
               /\ prevFail' = LastFailed
               /\ pc' = "idle"
  /\ UNCHANGED <<stFields, out, certOut, data, len, nread, nwait, connVars, envVars>>

\* ---- curls_read -----------------------------------------------------------
curls_read_continue_nonok(r) == r # CURLE_OK

curls_read_continue(r) == r = CURLE_AGAIN

curls_read_ret(r, n) == IF r # CURLE_OK THEN -1 ELSE n

curls_read_loop_top == "read_wait"

curls_read_call ==
  /\ pc = "idle"
  /\ \E l \in 0..MaxLen : len' = l
  /\ data' = <<>>
  /\ off' = 0
  /\ res' = "none"
  /\ nread' = 0
  /\ wire' = <<>>
  /\ nwait' = 0
  /\ nio' = 0
  /\ pc' = curls_read_loop_top
  /\ NoConn
  /\ UNCHANGED <<stFields, callerVars, envVars, extcall>>

curls_read_wait ==
  /\ pc = "read_wait"
  /\ nwait' = Bump(nwait)
  /\ extcall' = ExtWait(TRUE)
  /\ \E selectRet \in SelectResults :
       LET error == wait_for(selectRet) IN
       IF error < 0
       THEN /\ ret' = error
            /\ err' = GITERR_OS
            /\ lastOp' = "read"
            /\ prevFail' = LastFailed
            /\ pc' = "idle"
       ELSE /\ pc' = "read_recv"
            /\ UNCHANGED <<ret, err, lastOp, prevFail>>
  /\ UNCHANGED <<stFields, out, certOut, data, len, off, res, nread, wire, nio,
                 connVars, envVars>>

curls_read_recv ==
  /\ pc = "read_recv"
  /\ nio' = Bump(nio)
  /\ extcall' = ExtCall("curl_easy_recv")
  /\ \E r \in RecvResults(handle), n \in 0..len :
       /\ r # CURLE_OK => n = 0
       /\ res' = r
       /\ nread' = IF r = CURLE_OK THEN n ELSE nread
       /\ IF curls_read_continue(r)
          THEN /\ pc' = curls_read_loop_top
               /\ UNCHANGED <<ret, err, lastOp, prevFail>>
          ELSE /\ ret' = curls_read_ret(r, nread')
               /\ err' = IF r # CURLE_OK THEN GITERR_NET ELSE err
               /\ lastOp' = "read"
               /\ prevFail' = LastFailed
               /\ pc' = "idle"
  /\ UNCHANGED <<stFields, out, certOut, data, len, off, wire, nwait, connVars, envVars>>

\* ---- curls_close / curls_free ---------------------------------------------
curls_close_needed_always(h) == TRUE

curls_close_needed_inverted(h) == h = NULL

curls_close_needed(h) == h # NULL

curls_close_newhandle_kept(h) == h

curls_close_newhandle(h) == NULL

curls_close_newsocket_kept(fd) == fd

curls_close_newsocket(fd) == 0

curls_close_body ==
  IF curls_close_needed(handle)
  THEN /\ cleanups' = Bump(cleanups)
       /\ extcall' = ExtCall("curl_easy_cleanup")
       /\ handle' = curls_close_newhandle(handle)
       /\ socket' = curls_close_newsocket(socket)
  ELSE UNCHANGED <<cleanups, extcall, handle, socket>>

curls_close ==
  /\ pc = "idle"
  /\ curls_close_body
  /\ closes' = Bump(closes)
  /\ ret' = 0
  /\ lastOp' = "close"
  /\ prevFail' = LastFailed
  /\ NoLoop
  /\ NoConn
  /\ UNCHANGED <<pc, encrypted, cert_info, optable, out, certOut, err,
                 newFail, curlInits, stMem, curlopt>>

curls_free ==
  /\ pc = "idle"
  /\ curls_close_body
  /\ stMem' = "freed"
  /\ lastOp' = "free"
  /\ prevFail' = LastFailed
  /\ pc' = "freed"
  /\ NoLoop
  /\ NoConn
  /\ UNCHANGED <<encrypted, cert_info, optable, out, certOut, ret, err,
                 newFail, curlInits, curlopt, closes>>

\* ---- properties -----------------------------------------------------------
Returned(op) == pc = "idle" /\ lastOp = op

\* connect has returned and no later operation has started
ConnectReturned == lastOp = "connect" /\ perfRes # "none"

\* a step in which connect, read or write returns to the caller
ReturnStep(op) ==
  /\ lastOp' = op
  /\ pc' = "idle"
  /\ IF op = "connect" THEN pc = "idle" ELSE pc # "idle"

\* C1: a write of length L that returns gives exactly L or fails; when no
\* readiness wait failed the failure is a network error; a byte count
\* strictly between 0 and L is never returned.
C1_WriteFullOrError ==
  Returned("write") =>
    /\ ~(0 < ret /\ ret < len)
    /\ ret = len \/ ret = -1
    /\ extcall.fn # "select" => (ret = len \/ (ret = -1 /\ err = GITERR_NET))

C1_Witness ==
  /\ Returned("write")
  /\ len = 2
  /\ ret = len
  /\ nio = 3
  /\ wire = data

\* C2: on an encrypted stream a perform step that reports only "peer
\* certificate verification failed" makes connect return GIT_ECERTIFICATE,
\* and a certificate() call after such a connect returns 0 with an empty
\* X.509 record.
C2_CertFailureReported ==
  /\ (ConnectReturned /\ encrypted /\ perfRes = CURLE_PEER_FAILED_VERIFICATION
        /\ infoRes = CURLE_OK) => ret = GIT_ECERTIFICATE
  /\ (lastOp = "certificate" /\ connRet = GIT_ECERTIFICATE) =>
        /\ ret = 0
        /\ certOut = "cert_info"
        /\ cert_info = [cert_type |-> GIT_CERT_X509, data |-> NULL, len |-> 0]

C2_Witness ==
  /\ lastOp = "certificate"
  /\ encrypted
  /\ connRet = GIT_ECERTIFICATE
  /\ certOut = "cert_info"
  /\ ret = 0

\* C3: on a stream that is not encrypted connect never returns
\* GIT_ECERTIFICATE, and a "verification failed" perform result followed by a
\* successful socket extraction returns 0.
C3_PlainNeverCertError ==
  (ConnectReturned /\ ~encrypted) =>
    /\ ret # GIT_ECERTIFICATE
    /\ (perfRes = CURLE_PEER_FAILED_VERIFICATION /\ infoRes = CURLE_OK) => ret = 0

C3_Witness ==
  /\ lastOp = "connect"
  /\ ~encrypted
  /\ perfRes = CURLE_PEER_FAILED_VERIFICATION
  /\ infoRes = CURLE_OK
  /\ ret = 0

\* C4: once close has reset the handle to NULL, no read or write hands the
\* NULL handle or the reset socket to select, curl_easy_send or curl_easy_recv.
C4_NoIoOnClosedStream ==
  extcall.fn \in {"select", "curl_easy_send", "curl_easy_recv"} => extcall.sh # NULL

\* C5: when the factory fails on the port string, curl_easy_init has not
\* created a handle.
C5_PortFailsBeforeHandle ==
  newFail = "port" => curlInits = 0

\* C6: close returns 0 in every state, and a close of a stream whose handle
\* is already NULL changes no field of the stream and does not call
\* curl_easy_cleanup.
C6_CloseIdempotent ==
  /\ [](lastOp = "close" => ret = 0)
  /\ [][(pc = "idle" /\ pc' = "idle" /\ lastOp' = "close" /\ handle = NULL) =>
          /\ UNCHANGED stFields
          /\ UNCHANGED <<cleanups, extcall>>
          /\ ret' = 0]_vars

C6_Witness ==
  /\ lastOp = "close"
  /\ closes = 2
  /\ cleanups = 1
  /\ handle = NULL
  /\ ret = 0

\* C7: in read, a would-block result of curl_easy_recv goes back to the
\* readiness wait without returning; a successful receive of N bytes returns
\* N at once; any other result returns -1 with a network error.
C7_ReadRetryAndReturn ==
  [][pc = "read_recv" =>
       /\ res' = CURLE_AGAIN =>
            (pc' = "read_wait" /\ UNCHANGED <<ret, lastOp, err>>)
       /\ res' = CURLE_OK =>
            (ReturnStep("read") /\ ret' = nread' /\ 0 <= ret' /\ ret' <= len)
       /\ res' \notin {CURLE_OK, CURLE_AGAIN} =>
            (ReturnStep("read") /\ ret' = -1 /\ err' = GITERR_NET)]_vars

C7_Witness ==
  /\ Returned("read")
  /\ res = CURLE_OK
  /\ nio = 3
  /\ len = 3
  /\ ret = 2

\* C8: connect returns -1 with a network error, never 0 or GIT_ECERTIFICATE,
\* when curl_easy_perform gives a code other than success and verification
\* failure, and when curl_easy_getinfo fails.
C8_ConnectNoDowngrade ==
  ConnectReturned =>
    /\ perfRes \notin {CURLE_OK, CURLE_PEER_FAILED_VERIFICATION} =>
         (ret = -1 /\ err = GITERR_NET)
    /\ (perfRes \in {CURLE_OK, CURLE_PEER_FAILED_VERIFICATION} /\ infoRes # CURLE_OK) =>
         (ret = -1 /\ err = GITERR_NET)

C8_Witness ==
  /\ lastOp = "connect"
  /\ encrypted
  /\ perfRes = CURLE_PEER_FAILED_VERIFICATION
  /\ infoRes = CURLE_BAD_FUNCTION_ARGUMENT
  /\ ret = -1

\* C9: the handle created by the factory is never released twice, and when
\* free has run it has been released exactly once, whatever closes came
\* before.
C9_HandleReleasedOnce ==
  /\ cleanups <= 1
  /\ pc = "freed" => (cleanups = 1 /\ curlInits = 1 /\ handle = NULL)

C9_Witness ==
  /\ pc = "freed"
  /\ closes = 2
  /\ cleanups = 1

\* C10: a failing connect, read or write leaves the handle as it was and
\* releases nothing, so a handle that was non-NULL is still non-NULL; the
\* close that follows returns 0 and leaves the handle released exactly once.
C10_ClosableAfterFailure ==
  /\ [](pc \in {"idle", "write_wait", "write_send", "read_wait", "read_recv"} =>
          (handle # NULL <=> cleanups = 0))
  /\ []((lastOp = "close" /\ prevFail # "none") =>
          (ret = 0 /\ handle = NULL /\ socket = 0 /\ cleanups = 1))
  /\ [][\A op \in {"connect", "read", "write"} :
          (ReturnStep(op) /\ ret' < 0) => (handle' = handle /\ cleanups' = cleanups)]_vars

C10_Witness ==
  /\ lastOp = "close"
  /\ prevFail = "write"
  /\ extcall.fn = "curl_easy_cleanup"
  /\ closes = 1
  /\ handle = NULL
  /\ ret = 0

\* C11: whenever the handle is NULL the socket holds its reset value 0; no
\* step taken with a NULL handle gives the socket another value.
C11_NullHandleResetSocket ==
  /\ [](handle = NULL => socket = 0)
  /\ [][handle = NULL => socket' = 0]_vars

C11_Witness ==
  /\ lastOp = "connect"
  /\ handle = NULL
  /\ socket = 0
  /\ extcall.fn = "curl_easy_perform"
  /\ connRet = -1
  /\ cleanups = 1

\* C12: on every failing path of the factory the caller's out handle is not
\* written; when it is written the operation table, the encrypted flag and
\* the handle field of the stream are populated.
C12_FactoryFailsUnexposed ==
  /\ (newFail \in {"alloc", "init", "port"}) => (out = "unset" /\ ret = -1 /\ pc = "failed")
  /\ out = "stream" => (newFail = "ok" /\ optable = curls_optable)
  /\ (out = "stream" /\ lastOp = "new") =>
       (handle = CURL_HANDLE /\ encrypted = curlopt.https /\ ret = 0)

C12_Witness ==
  /\ newFail = "port"
  /\ curlInits = 1
  /\ stMem = "allocated"
  /\ out = "unset"

\* C13: the encrypted flag equals the encrypted argument of the factory and
\* no operation on the stream changes it.
C13_EncryptedFixed ==
  /\ [](newFail = "ok" => encrypted = curlopt.https)
  /\ [][pc # "start" => encrypted' = encrypted]_vars

C13_Witness ==
  /\ pc = "freed"
  /\ encrypted
  /\ curlopt.https
  /\ connRet = GIT_ECERTIFICATE
  /\ certOut = "cert_info"

\* C14: every curl_easy_send / curl_easy_recv attempt directly follows a
\* wait_for of its own on s->socket (for writing in write, for reading in
\* read); a failing wait returns -1 with an OS error at once, with no
\* attempt made and, in write, whatever offset was reached.
C14_WaitBeforeEveryAttempt ==
  /\ [](pc \in {"write_send", "read_recv"} =>
          /\ extcall.fn = "select"
          /\ extcall.fd = socket
          /\ extcall.reading = (pc = "read_recv")
          /\ (nwait = nio + 1 \/ nwait = MaxCount))
  /\ [][(pc \in {"write_wait", "read_wait"} /\ pc' = "idle") =>
          /\ ret' = -1
          /\ err' = GITERR_OS
          /\ lastOp' = (IF pc = "write_wait" THEN "write" ELSE "read")
          /\ nio' = nio
          /\ extcall'.fn = "select"]_vars

C14_Witness ==
  /\ Returned("write")
  /\ extcall.fn = "select"
  /\ ret = -1
  /\ err = GITERR_OS
  /\ len = 2
  /\ off = 1
  /\ nwait = 2
  /\ nio = 1

\* C15: in write the offset moves only on CURLE_OK and by the bytes sent,
\* every attempt offers data[off..len), 0 <= off <= len throughout, and on
\* success the bytes accepted, in order, are exactly data[0..len).
C15_WriteSendsBufferInOrder ==
  /\ [](pc \in {"write_wait", "write_send"} \/ Returned("write") =>
          /\ 0 <= off /\ off <= len
          /\ wire = SubSeq(data, 1, off))
  /\ []((Returned("write") /\ ret = len) => wire = data)
  /\ [][pc = "write_send" =>
          /\ res' = CURLE_OK => (off' - off = Len(wire') - Len(wire) /\ off' >= off)
          /\ res' # CURLE_OK => (off' = off /\ wire' = wire)]_vars

C15_Witness ==
  /\ Returned("write")
  /\ len = 3
  /\ ret = 3
  /\ nio = 3
  /\ wire = <<1, 2, 3>>

\* C16: when connect returns GIT_ECERTIFICATE the socket has been extracted
\* and stored and the handle is non-NULL, as after a connect that returned 0.
C16_CertErrorLeavesConnected ==
  [][(ReturnStep("connect") /\ ret' \in {0, GIT_ECERTIFICATE}) =>
       /\ infoRes' = CURLE_OK
       /\ socket' \in SockVals
       /\ extcall'.fn = "curl_easy_getinfo"
       /\ handle' = handle
       /\ handle' # NULL]_vars

C16_Witness ==
  /\ ConnectReturned
  /\ ret = GIT_ECERTIFICATE
  /\ socket = 3
  /\ handle = CURL_HANDLE

\* C18: certificate() returns 0 in every state of the stream and yields the
\* record (GIT_CERT_X509, NULL, 0); it changes neither the handle nor the
\* socket.
C18_CertificateAlwaysEmptyX509 ==
  /\ [](lastOp = "certificate" =>
          /\ ret = 0
          /\ certOut = "cert_info"
          /\ cert_info = [cert_type |-> GIT_CERT_X509, data |-> NULL, len |-> 0])
  /\ [][(pc = "idle" /\ pc' = "idle" /\ lastOp' = "certificate") =>
          UNCHANGED <<handle, socket>>]_vars

C18_Witness ==
  /\ lastOp = "certificate"
  /\ handle = NULL
  /\ cleanups = 1
  /\ connRet = GIT_ECERTIFICATE
  /\ ret = 0
  /\ cert_info.cert_type = GIT_CERT_X509

\* C19: every step of read, write and certificate leaves the handle and the
\* socket unchanged; connect leaves the handle unchanged; the socket changes
\* only in connect and close (free runs close), the handle only in close and
\* in the factory.
C19_OnlyConnectCloseMutate ==
  [][/\ (pc \in {"write_wait", "write_send", "read_wait", "read_recv"}
           \/ pc' \in {"write_wait", "write_send", "read_wait", "read_recv"}) =>
          UNCHANGED <<handle, socket>>
     /\ (pc = "idle" /\ pc' = "idle" /\ lastOp' = "certificate") =>
          UNCHANGED <<handle, socket>>
     /\ (pc = "idle" /\ pc' = "idle" /\ lastOp' = "connect") => handle' = handle
     /\ socket' # socket => lastOp' \in {"connect", "close", "free"}
     /\ handle' # handle => lastOp' \in {"new", "close", "free"}]_vars

C19_Witness ==
  /\ Returned("read")
  /\ ret = -1
  /\ err = GITERR_NET
  /\ socket = 3
  /\ handle = CURL_HANDLE
  /\ certOut = "cert_info"

\* C20: a write of length 0 makes one readiness wait and, when that wait
\* succeeds, one send attempt; it returns 0 exactly when the attempt gives
\* CURLE_OK, and on CURLE_AGAIN it returns -1 with a network error without
\* a second attempt.
C20_ZeroLengthWrite ==
  (Returned("write") /\ len = 0) =>
    /\ nwait = 1
    /\ extcall.fn = "select" => (nio = 0 /\ ret = -1 /\ err = GITERR_OS)
    /\ extcall.fn # "select" =>
         /\ nio = 1
         /\ ret = 0 <=> res = CURLE_OK
         /\ res = CURLE_AGAIN => (ret = -1 /\ err = GITERR_NET)

C20_Witness ==
  /\ Returned("write")
  /\ len = 0
  /\ res = CURLE_AGAIN
  /\ nwait = 1
  /\ nio = 1
  /\ ret = -1
  /\ err = GITERR_NET

Next ==
  \/ git_curl_stream_new
  \/ curls_connect
  \/ curls_certificate
  \/ curls_write_call
  \/ curls_write_wait
  \/ curls_write_send
  \/ curls_read_call
  \/ curls_read_wait
  \/ curls_read_recv
  \/ curls_close
  \/ curls_free

Init ==
  /\ pc = "start"
  /\ handle = NULL
  /\ socket = 0
  /\ encrypted = FALSE
  /\ cert_info = [cert_type |-> GIT_CERT_NONE, data |-> NULL, len |-> 0]
  /\ optable = calloc_optable
  /\ out = "unset"
  /\ certOut = "unset"
  /\ curlopt = [port |-> 0, https |-> FALSE]
  /\ ret = 0
  /\ lastOp = "none"
  /\ err = GITERR_NONE
  /\ data = <<>>
  /\ len = 0
  /\ off = 0
  /\ res = "none"
  /\ nread = 0
  /\ wire = <<>>
  /\ nwait = 0
  /\ nio = 0
  /\ perfRes = "none"
  /\ infoRes = "none"
  /\ connRet = 0
  /\ newFail = "none"
  /\ curlInits = 0
  /\ cleanups = 0
  /\ stMem = "none"
  /\ closes = 0
  /\ prevFail = "none"
  /\ extcall = [fn |-> "none", sh |-> NULL, fd |-> 0]

Spec == Init /\ [][Next]_vars

\* ---- termination of the loops ---------------------------------------------
\* a send that is not answered with would-block and, while bytes remain, does
\* not accept zero bytes
curls_write_progress ==
  /\ curls_write_send
  /\ res' # CURLE_AGAIN
  /\ (res' = CURLE_OK /\ off < len) => off' > off

\* a receive that is not answered with would-block
curls_read_answer ==
  /\ curls_read_recv
  /\ res' # CURLE_AGAIN

\* the operations that decide how a loop runs: the loops read s->handle,
\* which the factory and close set, and hand s->socket to select(), whose
\* answer does not depend on the value connect stored
LoopNext ==
  \/ git_curl_stream_new
  \/ curls_write_call
  \/ curls_write_wait
  \/ curls_write_send
  \/ curls_read_call
  \/ curls_read_wait
  \/ curls_read_recv
  \/ curls_close

\* every select() returns, and the transport does not answer would-block (or
\* accept zero bytes) for ever
LiveSpec ==
  /\ Init /\ [][LoopNext]_vars
  /\ WF_vars(curls_write_wait)
  /\ WF_vars(curls_read_wait)
  /\ SF_vars(curls_write_progress)
  /\ SF_vars(curls_read_answer)

\* C17: when every readiness wait returns and the transport does not answer
\* would-block (or accept zero bytes) for ever, every write and every read
\* returns; a would-block answer, and a zero-byte send while bytes remain,
\* lead back to the readiness wait with nothing changed, so a transport that
\* keeps answering so keeps the loop running: there is no timeout.
C17_LoopsTerminate ==
  /\ (pc \in {"write_wait", "write_send"}) ~> Returned("write")
  /\ (pc \in {"read_wait", "read_recv"}) ~> Returned("read")
  /\ [][(pc = "write_send" /\ off < len
           /\ (res' = CURLE_AGAIN \/ (res' = CURLE_OK /\ off' = off))) =>
          (pc' = "write_wait" /\ UNCHANGED <<off, wire, ret, lastOp, err>>)]_vars
  /\ [][(pc = "read_recv" /\ res' = CURLE_AGAIN) =>
          (pc' = "read_wait" /\ UNCHANGED <<nread, ret, lastOp, err>>)]_vars

C17_Witness ==
  /\ Returned("write")
  /\ len = 2
  /\ ret = 2
  /\ res = CURLE_OK
  /\ nio = 3
====
